---- MODULE Spec2Model ----
(***************************************************************************)
(* Sensor-to-alert pipeline of the disaster-response backend.              *)
(*                                                                         *)
(* Time is in milliseconds (Date.now()).  Reading values and thresholds    *)
(* are in tenths of the sensor's unit, so 3.0 is 30 and 2.5 is 25.         *)
(***************************************************************************)
EXTENDS Integers, Sequences, FiniteSets, TLC

\* ------------------------------------------------------------------ bounds

\* Total number of simulateSensorData calls in a behaviour.
MaxTicks == 2
\* Total number of readings the simulateSensorData calls of a behaviour generate.
MaxEvaluations == 3
\* Number of times the clock moves in a behaviour.
MaxAdvances == 2
\* Largest value and threshold drawn for the classification on its own.
MaxLevel == 5

\* --------------------------------------------------------------- constants

\* 5 * 60 * 1000: the look-back of the recent-alert query.
DedupWindowMs == 300000
\* The clock moves by one second or by five minutes.
TimeSteps == {1000, DedupWindowMs}

\* Fallback of calculateImpact.
DefaultImpact == 1000
\* addReading keeps this many readings.
MaxReadings == 1000

\* thresholds of the seeded sensors, in tenths: { warning: 3.0, critical: 4.0 }
SeedWarning == 30
SeedCritical == 40

SensorTypes ==
    {"seismic", "weather", "air_quality", "water_level",
     "temperature", "humidity", "pressure", "wind_speed"}
SensorStatuses == {"active", "inactive", "maintenance", "error"}

\* Sensor documents of the model, in the order Sensor.find returns them.
SensorIds == <<"sensor-001", "seismic-001", "seismic-002">>
SensorIdSet == {SensorIds[i] : i \in 1..Len(SensorIds)}

\* Values a tick may generate: 2.5 (normal), 3.0 (warning), 4.0 (critical).
Values == {25, 30, 40}

\* simulateSensorData calls that may be running at once
Ticks == {1, 2}

\* a Date or a Number that is not set
Unset == 0 - 1
\* no document
NoAlert == [none |-> TRUE]
\* req.body.resolution of a resolve request: absent, or a text
Resolutions == {""}
\* no DisasterReport document
NoReport == [none |-> TRUE]
\* no simulateSensorData call has failed
NoFailure == [none |-> TRUE]
\* no Team document, no User document
NoTeam == [none |-> TRUE]
NoUser == [none |-> TRUE]
\* no request answered yet
NoReply == [route |-> "", body |-> "", status |-> 0]
\* requests the alert routes may be handling at once
Requests == {1, 2}
\* no request
idleRequest ==
    [pc |-> "idle", route |-> "", id |-> 0, resolution |-> "",
     doc |-> NoAlert, status |-> 0]

VARIABLES
    now,          \* Date.now()
    advances,     \* how often the clock has moved
    sensors,      \* the Sensor collection: sensorId -> document
    alerts,       \* the Alert collection, in insertion order
    tick,         \* the running simulateSensorData calls
    ticksStarted, \* number of simulateSensorData calls so far
    overlapped,   \* history: two simulateSensorData calls have run at once
    cValue,       \* classification on its own: the value
    cThresholds,  \* classification on its own: the thresholds
    cStatus,      \* classification on its own: the result
    report,       \* a DisasterReport document
    arrived,      \* history: the readings addReading was given, per sensor
    request,      \* the requests the alert routes are handling
    failure,      \* history: where the last failed simulateSensorData call stopped
    team,         \* a Team document
    user,         \* a User document
    reply         \* the answer to the last request taken on its own

vars == <<now, advances, sensors, alerts, tick, ticksStarted, overlapped,
          cValue, cThresholds, cStatus, report, arrived, request,
          failure, team, user, reply>>
pipelineVars == <<now, advances, sensors, alerts, tick, ticksStarted, overlapped>>
classifyVars == <<cValue, cThresholds, cStatus>>
outsideVars == <<failure, team, user, reply>>

\* ------------------------------------------------------- pure functions

\* a mutant: exclusive comparisons
getAlertStatusExclusive(thresholds, value) ==
    IF value > thresholds.critical THEN "critical"
    ELSE IF value > thresholds.warning THEN "warning"
    ELSE "normal"

\* a mutant: the comparisons are turned round
getAlertStatusReversed(thresholds, value) ==
    IF value <= thresholds.critical THEN "critical"
    ELSE IF value <= thresholds.warning THEN "warning"
    ELSE "normal"

\* sensorSchema.methods.getAlertStatus
getAlertStatus(thresholds, value) ==
    IF value >= thresholds.critical THEN "critical"
    ELSE IF value >= thresholds.warning THEN "warning"
    ELSE "normal"

\* a mutant: temperature falls through to the default
getAlertTypeNoHeatwave(sensorType) ==
    CASE sensorType = "seismic" -> "earthquake"
      [] sensorType = "water_level" -> "flood"
      [] sensorType = "wind_speed" -> "storm"
      [] sensorType = "air_quality" -> "pollution"
      [] OTHER -> "other"

\* getAlertType: mapping[sensorType] || 'other'
getAlertType(sensorType) ==
    CASE sensorType = "seismic" -> "earthquake"
      [] sensorType = "water_level" -> "flood"
      [] sensorType = "wind_speed" -> "storm"
      [] sensorType = "temperature" -> "heatwave"
      [] sensorType = "air_quality" -> "pollution"
      [] OTHER -> "other"

\* a mutant: the warning column holds the critical figures
calculateImpactFlat(sensorType, severity) ==
    CASE sensorType = "seismic" -> 10000
      [] sensorType = "water_level" -> 8000
      [] sensorType = "wind_speed" -> 6000
      [] sensorType = "temperature" -> 12000
      [] sensorType = "air_quality" -> 15000
      [] OTHER -> DefaultImpact

\* calculateImpact: baseImpact[sensorType]?.[severity] || 1000
calculateImpact(sensorType, severity) ==
    CASE sensorType = "seismic" /\ severity = "critical" -> 10000
      [] sensorType = "seismic" /\ severity = "warning" -> 5000
      [] sensorType = "water_level" /\ severity = "critical" -> 8000
      [] sensorType = "water_level" /\ severity = "warning" -> 4000
      [] sensorType = "wind_speed" /\ severity = "critical" -> 6000
      [] sensorType = "wind_speed" /\ severity = "warning" -> 3000
      [] sensorType = "temperature" /\ severity = "critical" -> 12000
      [] sensorType = "temperature" /\ severity = "warning" -> 6000
      [] sensorType = "air_quality" /\ severity = "critical" -> 15000
      [] sensorType = "air_quality" /\ severity = "warning" -> 8000
      [] OTHER -> DefaultImpact

\* severity: alertStatus === 'critical' ? 'critical' : 'warning'
alertSeverity(alertStatus) ==
    IF alertStatus = "critical" THEN "critical" ELSE "warning"

\* Number.prototype.toFixed on a value in tenths, the result in tenths: one
\* digit keeps the value, no digit rounds it to a whole number, a half going up
toFixed(value, digits) ==
    IF digits = 1 THEN value ELSE ((value + 5) \div 10) * 10

\* a mutant: only the five templates of the hazards, the rest the default
generateAlertMessageFiveTemplates(sensorType, value) ==
    CASE sensorType = "seismic" ->
           [template |-> "Seismic activity detected", shown |-> toFixed(value, 1)]
      [] sensorType = "water_level" ->
           [template |-> "Rising water levels detected", shown |-> toFixed(value, 1)]
      [] sensorType = "wind_speed" ->
           [template |-> "High wind speeds detected", shown |-> toFixed(value, 1)]
      [] sensorType = "temperature" ->
           [template |-> "Extreme temperature detected", shown |-> toFixed(value, 1)]
      [] sensorType = "air_quality" ->
           [template |-> "Poor air quality detected", shown |-> toFixed(value, 0)]
      [] OTHER ->
           [template |-> "Sensor anomaly detected", shown |-> toFixed(value, 1)]

\* generateAlertMessage: the text before the colon and the number after it
generateAlertMessage(sensorType, value) ==
    CASE sensorType = "seismic" ->
           [template |-> "Seismic activity detected", shown |-> toFixed(value, 1)]
      [] sensorType = "water_level" ->
           [template |-> "Rising water levels detected", shown |-> toFixed(value, 1)]
      [] sensorType = "wind_speed" ->
           [template |-> "High wind speeds detected", shown |-> toFixed(value, 1)]
      [] sensorType = "temperature" ->
           [template |-> "Extreme temperature detected", shown |-> toFixed(value, 1)]
      [] sensorType = "air_quality" ->
           [template |-> "Poor air quality detected", shown |-> toFixed(value, 0)]
      [] sensorType = "humidity" ->
           [template |-> "Unusual humidity levels", shown |-> toFixed(value, 1)]
      [] sensorType = "pressure" ->
           [template |-> "Atmospheric pressure anomaly", shown |-> toFixed(value, 1)]
      [] OTHER ->
           [template |-> "Sensor anomaly detected", shown |-> toFixed(value, 1)]

\* a mutant: the first 1000 readings are kept
addReadingKeepsOldest(doc, value, at) ==
    LET reading == [value |-> value, quality |-> "good", timestamp |-> at]
        pushed == Append(doc.readings, reading)
        kept == IF Len(pushed) > MaxReadings
                THEN SubSeq(pushed, 1, MaxReadings)
                ELSE pushed
    IN [doc EXCEPT
          !.readings = kept,
          !.currentReading =
              [value |-> value, timestamp |-> at,
               status |-> getAlertStatus(doc.thresholds, value)]]

\* sensorSchema.methods.addReading, on the document
addReading(doc, value, at) ==
    LET reading == [value |-> value, quality |-> "good", timestamp |-> at]
        pushed == Append(doc.readings, reading)
        kept == IF Len(pushed) > MaxReadings
                THEN SubSeq(pushed, Len(pushed) - MaxReadings + 1, Len(pushed))
                ELSE pushed
    IN [doc EXCEPT
          !.readings = kept,
          !.currentReading =
              [value |-> value, timestamp |-> at,
               status |-> getAlertStatus(doc.thresholds, value)]]

\* ------------------------------------------------------------ the store

\* new Alert({...}) of simulateSensorData, with the schema's defaults and the
\* createdAt that timestamps: true sets when save() is called
newAlert(sensor, newValue, alertStatus, at) ==
    [type |-> getAlertType(sensor.type),
     message |-> generateAlertMessage(sensor.type, newValue),
     severity |-> alertSeverity(alertStatus),
     estimatedImpact |-> calculateImpact(sensor.type, alertStatus),
     sensorData |-> [value |-> newValue, sensorId |-> sensor.sensorId],
     acknowledged |-> FALSE,
     acknowledgedAt |-> Unset,
     resolved |-> FALSE,
     resolvedAt |-> Unset,
     resolution |-> "",
     responseTeams |-> <<>>,
     createdAt |-> at]

\* a mutant: the query does not look at resolved
matchesRecentIgnoringResolved(a, sensorId, type, severity, since) ==
    /\ a.sensorData.sensorId = sensorId
    /\ a.type = type
    /\ a.severity = severity
    /\ a.createdAt >= since

\* a mutant: the window's edge is excluded
matchesRecentExclusive(a, sensorId, type, severity, since) ==
    /\ a.sensorData.sensorId = sensorId
    /\ a.type = type
    /\ a.severity = severity
    /\ a.resolved = FALSE
    /\ a.createdAt > since

\* a mutant: the query does not look at severity
matchesRecentAnySeverity(a, sensorId, type, severity, since) ==
    /\ a.sensorData.sensorId = sensorId
    /\ a.type = type
    /\ a.resolved = FALSE
    /\ a.createdAt >= since

\* the filter of Alert.findOne in simulateSensorData
matchesRecent(a, sensorId, type, severity, since) ==
    /\ a.sensorData.sensorId = sensorId
    /\ a.type = type
    /\ a.severity = severity
    /\ a.resolved = FALSE
    /\ a.createdAt >= since

\* a mutant: the look-back is 5 * 60, three tenths of a second
dedupSinceShort(at) == at - 5 * 60

\* a mutant: the look-back is ten minutes
dedupSinceLong(at) == at - 2 * DedupWindowMs

\* new Date(Date.now() - 5 * 60 * 1000)
dedupSince(at) == at - DedupWindowMs

\* a mutant: only a critical reading is let through without an alert
needsAlertUnlessCritical(alertStatus) == alertStatus # "critical"

\* if (alertStatus !== 'normal')
needsAlert(alertStatus) == alertStatus # "normal"

\* Alert.findOne({...}): is there such a document
findRecentAlert(sensorId, type, severity, since) ==
    \E i \in 1..Len(alerts) :
        matchesRecent(alerts[i], sensorId, type, severity, since)

\* a mutant: every sensor that is not inactive
activeSensorsNotInactive ==
    SelectSeq(SensorIds, LAMBDA id : sensors[id].status # "inactive")

\* Sensor.find({ status: 'active' }): the ids, in collection order
activeSensors ==
    SelectSeq(SensorIds, LAMBDA id : sensors[id].status = "active")

RECURSIVE sumReadings(_)
sumReadings(ids) ==
    IF ids = {} THEN 0
    ELSE LET id == CHOOSE x \in ids : TRUE
         IN Len(sensors[id].readings) + sumReadings(ids \ {id})

\* the readings stored so far
evaluations == sumReadings(SensorIdSet)

idleTick ==
    [pc |-> "idle", list |-> <<>>, idx |-> 0, newValue |-> Unset,
     alertStatus |-> "normal", queriedAt |-> Unset, pending |-> NoAlert]

\* the sensor a tick is working on
current(t) == tick[t].list[tick[t].idx]

\* the for loop moves on to the next sensor, or the call returns
nextSensor(t) ==
    IF tick[t].idx < Len(tick[t].list)
    THEN [tick[t] EXCEPT !.pc = "gen", !.idx = @ + 1, !.newValue = Unset,
                         !.alertStatus = "normal", !.queriedAt = Unset,
                         !.pending = NoAlert]
    ELSE idleTick

\* ------------------------------------------------------------- actions

\* simulateSensorData is called and Sensor.find answers
TickStart(t) ==
    /\ tick[t].pc = "idle"
    /\ ticksStarted < MaxTicks
    /\ evaluations < MaxEvaluations
    /\ ticksStarted' = ticksStarted + 1
    /\ tick' = [tick EXCEPT ![t] =
                  IF Len(activeSensors) = 0 THEN idleTick
                  ELSE [idleTick EXCEPT !.pc = "gen", !.list = activeSensors,
                                        !.idx = 1]]
    /\ overlapped' = (overlapped \/ \E u \in Ticks : tick[u].pc # "idle")
    /\ UNCHANGED <<now, advances, sensors, alerts,
                   classifyVars, report, arrived, request, outsideVars>>

\* a value is generated, sensor.addReading(newValue) saves the document and
\* the call goes on with getAlertStatus(newValue): a normal reading moves on
\* to the next sensor, any other builds the recent-alert query from
\* Date.now().  The write of the reading is placed at the
\* instant the await returns; no other call reads the readings.
TickAddReading(t) ==
    /\ tick[t].pc = "gen"
    /\ evaluations < MaxEvaluations
    /\ \E v \in Values :
         LET st == getAlertStatus(sensors[current(t)].thresholds, v)
         IN /\ sensors' = [sensors EXCEPT ![current(t)] = addReading(@, v, now)]
            /\ arrived' = [arrived EXCEPT ![current(t)] =
                             Append(@, [value |-> v, quality |-> "good",
                                        timestamp |-> now])]
            /\ tick' = [tick EXCEPT ![t] =
                          IF ~needsAlert(st) THEN nextSensor(t)
                          ELSE [@ EXCEPT !.pc = "findOne", !.newValue = v,
                                         !.alertStatus = st,
                                         !.queriedAt = now]]
    /\ UNCHANGED <<now, advances, alerts, ticksStarted, overlapped,
                   classifyVars, report, request, outsideVars>>

\* Alert.findOne answers; with no recent alert the new one is built and
\* save() is called
TickFindOne(t) ==
    /\ tick[t].pc = "findOne"
    /\ LET s == sensors[current(t)]
           found == findRecentAlert(s.sensorId, getAlertType(s.type),
                                    alertSeverity(tick[t].alertStatus),
                                    dedupSince(tick[t].queriedAt))
       IN tick' = [tick EXCEPT ![t] =
                     IF found THEN nextSensor(t)
                     ELSE [@ EXCEPT !.pc = "save",
                                    !.pending = newAlert(s, tick[t].newValue,
                                                    tick[t].alertStatus, now)]]
    /\ UNCHANGED <<now, advances, sensors, alerts, ticksStarted, overlapped,
                   classifyVars, report, arrived, request, outsideVars>>

\* alert.save() stores the document
TickSaveAlert(t) ==
    /\ tick[t].pc = "save"
    /\ alerts' = Append(alerts, tick[t].pending)
    /\ tick' = [tick EXCEPT ![t] = nextSensor(t)]
    /\ UNCHANGED <<now, advances, sensors, ticksStarted, overlapped,
                   classifyVars, report, arrived, request, outsideVars>>

\* PATCH /:id/resolve, the fields it sets
resolvedAlert(a, resolution, at) ==
    [a EXCEPT !.resolved = TRUE,
              !.resolvedAt = at,
              !.resolution = IF resolution = "" THEN "Resolved by system"
                             ELSE resolution]

\* PATCH /:id/resolve: 404 for no such alert and 400 for a resolved one
\* change nothing
ResolveAlert(i, resolution) ==
    /\ i \in 1..Len(alerts)
    /\ alerts[i].resolved = FALSE
    /\ alerts' = [alerts EXCEPT ![i] = resolvedAlert(@, resolution, now)]
    /\ UNCHANGED <<now, advances, sensors, tick, ticksStarted, overlapped,
                   classifyVars, report, arrived, request, outsideVars>>

\* time passes
Advance(d) ==
    /\ advances < MaxAdvances
    /\ advances' = advances + 1
    /\ now' = now + d
    /\ UNCHANGED <<sensors, alerts, tick, ticksStarted, overlapped,
                   classifyVars, report, arrived, request, outsideVars>>

\* ---------------------------------------------------------- specification

newSensor(id, type, status) ==
    [sensorId |-> id, type |-> type, status |-> status,
     thresholds |-> [warning |-> SeedWarning, critical |-> SeedCritical],
     readings |-> <<>>,
     currentReading |-> [value |-> Unset, timestamp |-> Unset,
                         status |-> "normal"]]

\* the state after start-up, the Sensor collection holding these documents
InitWith(docs) ==
    /\ now = 0
    /\ advances = 0
    /\ sensors = docs
    /\ alerts = <<>>
    /\ tick = [t \in Ticks |-> idleTick]
    /\ ticksStarted = 0
    /\ overlapped = FALSE
    /\ cValue = 0
    /\ cThresholds = [warning |-> 0, critical |-> 0]
    /\ cStatus = "unclassified"
    /\ report = NoReport
    /\ arrived = [id \in SensorIdSet |-> <<>>]
    /\ request = [r \in Requests |-> idleRequest]
    /\ failure = NoFailure
    /\ team = NoTeam
    /\ user = NoUser
    /\ reply = NoReply

\* one active sensor, of type ty
oneActive(ty) ==
    [id \in SensorIdSet |->
       IF id = "sensor-001" THEN newSensor(id, ty, "active")
       ELSE IF id = "seismic-001" THEN newSensor(id, "seismic", "inactive")
       ELSE newSensor(id, "seismic", "maintenance")]

\* two active sensors of one type
twoActive ==
    [id \in SensorIdSet |->
       IF id = "seismic-002" THEN newSensor(id, "seismic", "maintenance")
       ELSE newSensor(id, "seismic", "active")]

\* a simulateSensorData call starts only when none is running
TickStartAlone(t) ==
    /\ \A u \in Ticks : tick[u].pc = "idle"
    /\ TickStart(t)

\* One active sensor; simulateSensorData calls may overlap.
Init == InitWith(oneActive("seismic"))

Next ==
    \/ \E t \in Ticks : TickStart(t)
    \/ \E t \in Ticks : TickAddReading(t)
    \/ \E t \in Ticks : TickFindOne(t)
    \/ \E t \in Ticks : TickSaveAlert(t)
    \/ \E i \in 1..Len(alerts), r \in Resolutions : ResolveAlert(i, r)
    \/ \E d \in TimeSteps : Advance(d)

Spec == Init /\ [][Next]_vars

\* Two active sensors; each simulateSensorData call ends before the next.
InitSeq == InitWith(twoActive)

NextSeq ==
    \/ TickStartAlone(1)
    \/ TickAddReading(1)
    \/ TickFindOne(1)
    \/ TickSaveAlert(1)
    \/ \E i \in 1..Len(alerts), r \in Resolutions : ResolveAlert(i, r)
    \/ \E d \in TimeSteps : Advance(d)

SpecSeq == InitSeq /\ [][NextSeq]_vars

\* One active sensor of any type; calls one after the other.
InitTypes == \E ty \in SensorTypes : InitWith(oneActive(ty))

SpecTypes == InitTypes /\ [][NextSeq]_vars

\* One active sensor and two of any other status; calls one after the other.
InitStatus ==
    \E st1, st2 \in SensorStatuses \ {"active"} :
        InitWith([id \in SensorIdSet |->
                    IF id = "sensor-001" THEN newSensor(id, "seismic", "active")
                    ELSE IF id = "seismic-001" THEN newSensor(id, "seismic", st1)
                    ELSE newSensor(id, "seismic", st2)])

SpecStatus == InitStatus /\ [][NextSeq]_vars

\* getAlertStatus on its own: any value against any pair of thresholds, the
\* schema asking only that both are numbers
Levels == 0..MaxLevel

InitClassify ==
    /\ now = 0
    /\ advances = 0
    /\ sensors = oneActive("seismic")
    /\ alerts = <<>>
    /\ tick = [t \in Ticks |-> idleTick]
    /\ ticksStarted = 0
    /\ overlapped = FALSE
    /\ cValue \in Levels
    /\ cThresholds \in [warning : Levels, critical : Levels]
    /\ cStatus = "unclassified"
    /\ report = NoReport
    /\ arrived = [id \in SensorIdSet |-> <<>>]
    /\ request = [r \in Requests |-> idleRequest]
    /\ failure = NoFailure
    /\ team = NoTeam
    /\ user = NoUser
    /\ reply = NoReply

\* sensor.getAlertStatus(value)
Classify ==
    /\ cStatus = "unclassified"
    /\ cStatus' = getAlertStatus(cThresholds, cValue)
    /\ UNCHANGED <<cValue, cThresholds, pipelineVars, report, arrived, request,
                   outsideVars>>

NextClassify == Classify

SpecClassify == InitClassify /\ [][NextClassify]_vars

\* One active sensor; calls may overlap, time passes between the awaits, no
\* await rejects and no alert is resolved.
NextCoverage ==
    \/ \E t \in Ticks : TickStart(t)
    \/ \E t \in Ticks : TickAddReading(t)
    \/ \E t \in Ticks : TickFindOne(t)
    \/ \E t \in Ticks : TickSaveAlert(t)
    \/ \E d \in TimeSteps : Advance(d)

SpecCoverage == Init /\ [][NextCoverage]_vars

\* ------------------------------------------------------- failing awaits

\* a mutant: the error is caught inside the loop, which goes on
afterFailureNextSensor(t) == nextSensor(t)

\* catch (error) { console.error(...) }: the try block holds the whole
\* loop, so the call returns
afterFailure(t) == idleTick

\* An await of simulateSensorData rejects: addReading's save (nothing is
\* stored of the reading), Alert.findOne, or alert.save (nothing is stored
\* of the alert).  The history keeps where the call stopped and what the
\* collections held.
TickFailure(t) ==
    /\ tick[t].pc \in {"gen", "findOne", "save"}
    /\ tick' = [tick EXCEPT ![t] = afterFailure(t)]
    /\ failure' = [call |-> ticksStarted, pc |-> tick[t].pc,
                   list |-> tick[t].list, idx |-> tick[t].idx,
                   readings |-> [id \in SensorIdSet |-> Len(arrived[id])],
                   alerts |-> Len(alerts)]
    /\ UNCHANGED <<now, advances, sensors, alerts, ticksStarted, overlapped,
                   classifyVars, report, arrived, request, team, user, reply>>

\* Two active sensors; calls one after the other, and any await may reject.
NextFailure ==
    \/ TickStartAlone(1)
    \/ TickAddReading(1)
    \/ TickFindOne(1)
    \/ TickSaveAlert(1)
    \/ TickFailure(1)

SpecFailure == InitSeq /\ [][NextFailure]_vars

\* --------------------------------------------------------- POST /alerts

MaxCreated == 2

DefaultEstimatedImpact == 1000

\* alertSchema of utils/validation: type, severity and estimatedImpact
JoiAlertTypes ==
    {"earthquake", "flood", "storm", "fire", "pollution", "heatwave", "other"}

JoiSeverities == {"critical", "warning", "moderate", "info"}

\* the request bodies drawn: one type outside the schema's list, types in
\* and out of the impact table, and estimatedImpact absent, below the
\* minimum, zero and positive
BodyTypes == {"earthquake", "pollution", "heatwave", "tsunami"}

BodyAlertSeverities == {"critical", "moderate", "info"}

BodyImpacts == {0 - 1, 0, 500}

AlertBodies ==
    [type : BodyTypes, severity : BodyAlertSeverities,
     supplied : BOOLEAN, estimatedImpact : BodyImpacts]

\* validateAlert(req.body) has no error
validAlert(body) ==
    /\ body.type \in JoiAlertTypes
    /\ body.severity \in JoiSeverities
    /\ body.supplied => body.estimatedImpact >= 0

\* baseImpact[type]?.[severity] || 1000
calculateEstimatedImpact(type, severity) ==
    LET table(critical, warning, moderate) ==
            CASE severity = "critical" -> critical
              [] severity = "warning" -> warning
              [] severity = "moderate" -> moderate
              [] OTHER -> DefaultEstimatedImpact
    IN  CASE type = "earthquake" -> table(10000, 5000, 1000)
          [] type = "flood" -> table(8000, 4000, 800)
          [] type = "storm" -> table(6000, 3000, 600)
          [] type = "fire" -> table(5000, 2000, 500)
          [] type = "pollution" -> table(15000, 8000, 2000)
          [] OTHER -> DefaultEstimatedImpact

\* value.estimatedImpact || calculateEstimatedImpact(value.type,
\* value.severity): || takes the right side when the left is undefined or 0
estimatedImpactOf(body) ==
    IF body.supplied /\ body.estimatedImpact # 0
    THEN body.estimatedImpact
    ELSE calculateEstimatedImpact(body.type, body.severity)

\* new Alert(alertData) with the schema's defaults, saved at time at
createdAlert(body, at) ==
    [type |-> body.type,
     severity |-> body.severity,
     estimatedImpact |-> estimatedImpactOf(body),
     acknowledged |-> FALSE,
     acknowledgedAt |-> Unset,
     resolved |-> FALSE,
     resolvedAt |-> Unset,
     resolution |-> "",
     responseTeams |-> <<>>,
     createdAt |-> at]

\* router.post('/'): 400 on a validation error, else the alert is saved
\* and the answer is 201
CreateAlert(body) ==
    /\ Len(alerts) < MaxCreated
    /\ IF ~validAlert(body)
       THEN /\ reply' = [route |-> "alerts/create", body |-> body,
                         status |-> 400]
            /\ UNCHANGED alerts
       ELSE /\ alerts' = Append(alerts, createdAlert(body, now))
            /\ reply' = [route |-> "alerts/create", body |-> body,
                         status |-> 201]
    /\ UNCHANGED <<now, advances, sensors, tick, ticksStarted, overlapped,
                   classifyVars, report, arrived, request, failure, team,
                   user>>

\* An empty alert collection.
InitCreate ==
    /\ now = 0
    /\ advances = 0
    /\ sensors = oneActive("seismic")
    /\ alerts = <<>>
    /\ tick = [t \in Ticks |-> idleTick]
    /\ ticksStarted = 0
    /\ overlapped = FALSE
    /\ cValue = 0
    /\ cThresholds = [warning |-> 0, critical |-> 0]
    /\ cStatus = "unclassified"
    /\ report = NoReport
    /\ arrived = [id \in SensorIdSet |-> <<>>]
    /\ request = [r \in Requests |-> idleRequest]
    /\ failure = NoFailure
    /\ team = NoTeam
    /\ user = NoUser
    /\ reply = NoReply

NextCreate == \E body \in AlertBodies : CreateAlert(body)

SpecCreate == InitCreate /\ [][NextCreate]_vars

\* ------------------------------------------------------ disaster reports

\* 1000 * 60 * 60: the milliseconds of an hour
HourMs == 3600000
\* priority is kept as a whole number of 1/Fixed: five factors of one decimal
\* each leave it exact
Fixed == 100000

\* the type and severity enumerations of the DisasterReport schema
ReportTypes ==
    {"earthquake", "flood", "fire", "storm", "landslide", "accident",
     "building_collapse", "gas_leak", "water_logging", "tree_fall",
     "power_outage", "road_block", "other"}
ReportSeverities == {"low", "medium", "high", "critical"}
\* const highPriorityTypes
highPriorityTypes == {"earthquake", "fire", "building_collapse", "gas_leak"}

\* a severity a request may carry: one of the schema, none, or another word
BodySeverities == ReportSeverities \cup {"", "unlisted"}
\* affectedPeople.estimated: absent, or a number
Estimates == {Unset, 10, 11, 15}
\* the clock of a report moves by a millisecond, 6 hours, a day or two days
ReportSteps == {1, 6 * HourMs, 24 * HourMs, 48 * HourMs}

\* priority *= factor, the factor in tenths
times(priority, tenths) == (priority * tenths) \div 10

\* Math.round: the nearest whole number, a half going up
MathRound(priority) == (2 * priority + Fixed) \div (2 * Fixed)

\* Math.min
MathMin(a, b) == IF a < b THEN a ELSE b

\* a mutant: no fallback for a severity outside the table
severityMultiplierNoFallback(severity) ==
    CASE severity = "low" -> 5
      [] severity = "medium" -> 10
      [] severity = "high" -> 15
      [] severity = "critical" -> 20
      [] OTHER -> 0

\* severityMultiplier[this.severity] || 1, in tenths
severityMultiplier(severity) ==
    CASE severity = "low" -> 5
      [] severity = "medium" -> 10
      [] severity = "high" -> 15
      [] severity = "critical" -> 20
      [] OTHER -> 10

\* a mutant: reports older than two days lose priority
timeFactorDecaying(priority, ageMs) ==
    LET p24 == IF ageMs > 24 * HourMs THEN times(priority, 12) ELSE priority
    IN IF ageMs > 48 * HourMs THEN times(p24, 5) ELSE p24

\* the time factor: hoursOld > 24 and hoursOld > 48 are two statements, both
\* run for a report older than 48 hours
timeFactor(priority, ageMs) ==
    LET p24 == IF ageMs > 24 * HourMs THEN times(priority, 12) ELSE priority
    IN IF ageMs > 48 * HourMs THEN times(p24, 15) ELSE p24

\* a mutant: ten people count as well
peopleFactorInclusive(priority, estimated) ==
    IF estimated # Unset /\ estimated >= 10 THEN times(priority, 13) ELSE priority

\* the affected people factor: undefined > 10 is false
peopleFactor(priority, estimated) ==
    IF estimated # Unset /\ estimated > 10 THEN times(priority, 13) ELSE priority

\* disasterReportSchema.methods.calculatePriority at Date.now() = at
calculatePriority(doc, at) ==
    LET p0 == 5 * Fixed
        p1 == times(p0, severityMultiplier(doc.severity))
        p2 == IF doc.type \in highPriorityTypes THEN times(p1, 15) ELSE p1
        p3 == timeFactor(p2, at - doc.createdAt)
        p4 == peopleFactor(p3, doc.estimated)
    IN [doc EXCEPT !.priority = MathMin(MathRound(p4), 10)]

\* new DisasterReport({...}) of POST /reports, with the schema's defaults
newReport(type, severity, estimated) ==
    [reportId |-> "",
     type |-> type,
     severity |-> IF severity = "" THEN "medium" ELSE severity,
     estimated |-> estimated,
     priority |-> 5,
     status |-> "reported",
     assignedTeams |-> <<>>,
     createdAt |-> Unset,
     updatedAt |-> Unset]

\* a mutant: the priority is computed with the report id, once
preSaveOnlyNew(doc, at) ==
    IF doc.reportId = ""
    THEN calculatePriority([doc EXCEPT !.reportId = "DR"], at)
    ELSE doc

\* disasterReportSchema.pre('save'): a report id for a document without one,
\* then calculatePriority
preSave(doc, at) ==
    calculatePriority([doc EXCEPT !.reportId = IF @ = "" THEN "DR" ELSE @], at)

\* report.save(): timestamps: true sets createdAt once and updatedAt each
\* time, then the middleware runs.  The validators of the schema are the
\* persistence layer's and are left out, so more saves succeed here than there.
SaveReport ==
    /\ report # NoReport
    /\ report' = preSave([report EXCEPT
                             !.createdAt = IF @ = Unset THEN now ELSE @,
                             !.updatedAt = now], now)
    /\ UNCHANGED <<now, advances, sensors, alerts, tick, ticksStarted, overlapped,
                   classifyVars, arrived, request, outsideVars>>

\* One report, of any type, severity and number of affected people.
InitReport ==
    /\ now = 0
    /\ advances = 0
    /\ sensors = oneActive("seismic")
    /\ alerts = <<>>
    /\ tick = [t \in Ticks |-> idleTick]
    /\ ticksStarted = 0
    /\ overlapped = FALSE
    /\ cValue = 0
    /\ cThresholds = [warning |-> 0, critical |-> 0]
    /\ cStatus = "unclassified"
    /\ \E ty \in ReportTypes, sev \in BodySeverities, est \in Estimates :
           report = newReport(ty, sev, est)
    /\ arrived = [id \in SensorIdSet |-> <<>>]
    /\ request = [r \in Requests |-> idleRequest]
    /\ failure = NoFailure
    /\ team = NoTeam
    /\ user = NoUser
    /\ reply = NoReply

NextReport ==
    \/ SaveReport
    \/ \E d \in ReportSteps : Advance(d)

SpecReport == InitReport /\ [][NextReport]_vars

\* ------------------------------------------------------- reading buffer

\* Number of POST /:id/readings requests beyond a full buffer.
MaxPosts == 3

\* the sensor the readings are posted to
PostedSensor == "sensor-001"

\* the readings of a sensor after n requests, the i-th carrying the value i
\* (0.1 i), all at time 0
posted(n) ==
    [i \in 1..n |-> [value |-> i, quality |-> "good", timestamp |-> 0]]

\* POST /:id/readings with a number as the value and no quality, for a
\* sensor that exists: sensor.addReading(value, 'good').  A value that is no
\* number (400) and an unknown sensor (404) change nothing.
PostReading(id, v) ==
    /\ Len(arrived[id]) < MaxReadings + MaxPosts
    /\ sensors' = [sensors EXCEPT ![id] = addReading(@, v, now)]
    /\ arrived' = [arrived EXCEPT ![id] =
                     Append(@, [value |-> v, quality |-> "good",
                                timestamp |-> now])]
    /\ UNCHANGED <<now, advances, alerts, tick, ticksStarted, overlapped,
                   classifyVars, report, request, outsideVars>>

\* One sensor has had one reading fewer than the buffer holds, or as many,
\* one request after the other.
InitBuffer ==
    /\ now = 0
    /\ advances = 0
    /\ \E n \in {MaxReadings - 1, MaxReadings} :
           /\ sensors = [oneActive("seismic") EXCEPT
                           ![PostedSensor].readings = posted(n),
                           ![PostedSensor].currentReading =
                               [value |-> n, timestamp |-> 0,
                                status |-> getAlertStatus(
                                    oneActive("seismic")[PostedSensor].thresholds,
                                    n)]]
           /\ arrived = [id \in SensorIdSet |->
                           IF id = PostedSensor THEN posted(n) ELSE <<>>]
    /\ alerts = <<>>
    /\ tick = [t \in Ticks |-> idleTick]
    /\ ticksStarted = 0
    /\ overlapped = FALSE
    /\ cValue = 0
    /\ cThresholds = [warning |-> 0, critical |-> 0]
    /\ cStatus = "unclassified"
    /\ report = NoReport
    /\ request = [r \in Requests |-> idleRequest]
    /\ failure = NoFailure
    /\ team = NoTeam
    /\ user = NoUser
    /\ reply = NoReply

NextBuffer ==
    \E v \in Values : PostReading(PostedSensor, v)

SpecBuffer == InitBuffer /\ [][NextBuffer]_vars

\* ---------------------------------------------------------- alert routes

\* req.params.id of a request: the first alert of the collection, or an id
\* of no alert
AlertIds == {0, 1}
\* req.body.resolution of a request to the alert routes: absent, or a text
RequestResolutions == {"", "sandbagged"}

\* a mutant: an acknowledged alert is acknowledged again
rejectsAcknowledgeNever(a) == FALSE

\* PATCH /:id/acknowledge: if (alert.acknowledged) return 400
rejectsAcknowledge(a) == a.acknowledged

\* PATCH /:id/resolve: if (alert.resolved) return 400
rejectsResolve(a) == a.resolved

\* PATCH /:id/acknowledge, the fields it sets
acknowledgedAlert(a, at) ==
    [a EXCEPT !.acknowledged = TRUE, !.acknowledgedAt = at]

\* the answer of a handler that ends without a save
answered(route, i, status) ==
    [idleRequest EXCEPT !.pc = "done", !.route = route, !.id = i,
                        !.status = status]

\* PATCH /:id/acknowledge up to its save: Alert.findById answers, then 404
\* for no alert, 400 for an acknowledged one, and otherwise the flag and
\* the date are set on the document found and save() is called
AcknowledgeFind(r, i) ==
    /\ request[r].pc \in {"idle", "done"}
    /\ request' = [request EXCEPT ![r] =
         IF i \notin 1..Len(alerts) THEN answered("acknowledge", i, 404)
         ELSE IF rejectsAcknowledge(alerts[i]) THEN answered("acknowledge", i, 400)
         ELSE [idleRequest EXCEPT !.pc = "save", !.route = "acknowledge",
                                   !.id = i,
                                   !.doc = acknowledgedAlert(alerts[i], now)]]
    /\ UNCHANGED <<now, advances, sensors, alerts, tick, ticksStarted, overlapped,
                   classifyVars, report, arrived, outsideVars>>

\* PATCH /:id/acknowledge, save() and the answer: the paths the handler set
\* are written to the stored document
AcknowledgeSave(r) ==
    /\ request[r].pc = "save"
    /\ request[r].route = "acknowledge"
    /\ alerts' = [alerts EXCEPT ![request[r].id] =
                    [@ EXCEPT !.acknowledged = request[r].doc.acknowledged,
                              !.acknowledgedAt = request[r].doc.acknowledgedAt]]
    /\ request' = [request EXCEPT ![r].pc = "done", ![r].status = 200]
    /\ UNCHANGED <<now, advances, sensors, tick, ticksStarted, overlapped,
                   classifyVars, report, arrived, outsideVars>>

\* PATCH /:id/resolve up to its save: Alert.findById answers, then 404 for
\* no alert, 400 for a resolved one, and otherwise the flag, the date and
\* the resolution are set on the document found and save() is called
ResolveFind(r, i, resolution) ==
    /\ request[r].pc \in {"idle", "done"}
    /\ request' = [request EXCEPT ![r] =
         IF i \notin 1..Len(alerts)
         THEN [answered("resolve", i, 404) EXCEPT !.resolution = resolution]
         ELSE IF rejectsResolve(alerts[i])
         THEN [answered("resolve", i, 400) EXCEPT !.resolution = resolution]
         ELSE [idleRequest EXCEPT !.pc = "save", !.route = "resolve", !.id = i,
                                   !.resolution = resolution,
                                   !.doc = resolvedAlert(alerts[i], resolution, now)]]
    /\ UNCHANGED <<now, advances, sensors, alerts, tick, ticksStarted, overlapped,
                   classifyVars, report, arrived, outsideVars>>

\* PATCH /:id/resolve, save() and the answer
ResolveSave(r) ==
    /\ request[r].pc = "save"
    /\ request[r].route = "resolve"
    /\ alerts' = [alerts EXCEPT ![request[r].id] =
                    [@ EXCEPT !.resolved = request[r].doc.resolved,
                              !.resolvedAt = request[r].doc.resolvedAt,
                              !.resolution = request[r].doc.resolution]]
    /\ request' = [request EXCEPT ![r].pc = "done", ![r].status = 200]
    /\ UNCHANGED <<now, advances, sensors, tick, ticksStarted, overlapped,
                   classifyVars, report, arrived, outsideVars>>

\* The collection holds the alert a simulation call made of a critical
\* reading of the active sensor; requests may overlap.
InitRoutes ==
    /\ now = 0
    /\ advances = 0
    /\ sensors = [oneActive("seismic") EXCEPT
                    !["sensor-001"] = addReading(@, SeedCritical, 0)]
    /\ alerts = <<newAlert(oneActive("seismic")["sensor-001"], SeedCritical,
                           "critical", 0)>>
    /\ tick = [t \in Ticks |-> idleTick]
    /\ ticksStarted = 0
    /\ overlapped = FALSE
    /\ cValue = 0
    /\ cThresholds = [warning |-> 0, critical |-> 0]
    /\ cStatus = "unclassified"
    /\ report = NoReport
    /\ arrived = [id \in SensorIdSet |->
                    IF id = "sensor-001"
                    THEN <<[value |-> SeedCritical, quality |-> "good",
                            timestamp |-> 0]>>
                    ELSE <<>>]
    /\ request = [r \in Requests |-> idleRequest]
    /\ failure = NoFailure
    /\ team = NoTeam
    /\ user = NoUser
    /\ reply = NoReply

NextRoutes ==
    \/ \E r \in Requests, i \in AlertIds : AcknowledgeFind(r, i)
    \/ \E r \in Requests : AcknowledgeSave(r)
    \/ \E r \in Requests, i \in AlertIds, x \in RequestResolutions :
          ResolveFind(r, i, x)
    \/ \E r \in Requests : ResolveSave(r)
    \/ \E d \in TimeSteps : Advance(d)

SpecRoutes == InitRoutes /\ [][NextRoutes]_vars

\* The same, one request at a time: a handler ends before the next starts.
NextRoutesSeq ==
    \/ \E i \in AlertIds : AcknowledgeFind(1, i)
    \/ AcknowledgeSave(1)
    \/ \E i \in AlertIds, x \in RequestResolutions : ResolveFind(1, i, x)
    \/ ResolveSave(1)
    \/ \E d \in TimeSteps : Advance(d)

SpecRoutesSeq == InitRoutes /\ [][NextRoutesSeq]_vars

\* ------------------------------------------------------- team assignment

\* Largest number of teams assigned to one alert or report.
MaxAssignments == 3

\* req.body.teamId: the 24 hexadecimal digits of a team's id, shortened to
\* four; one team written in small and in capital digits, and another team
TeamIdTexts == {"5f1a", "5F1A", "6b2c"}

\* the cast of a text to the ObjectId of the schema: the digits count, not
\* their case
castObjectId(text) == IF text = "5F1A" THEN "5f1a" ELSE text

\* ObjectId.prototype.toString: the digits, in small letters
objectIdToString(oid) == oid

\* teams.some(team => team.teamId.toString() === teamId)
isAlreadyAssigned(teams, teamId) ==
    \E k \in 1..Len(teams) : objectIdToString(teams[k].teamId) = teamId

\* teams.push({ teamId, assignedAt: new Date(), status })
pushedTeam(teamId, at, status) ==
    [teamId |-> castObjectId(teamId), assignedAt |-> at, status |-> status]

\* PATCH /alerts/:id/assign-team, the whole handler: 404 for no alert, 400
\* for a team found in responseTeams, otherwise the team is pushed and the
\* alert saved
AssignTeam(i, teamId) ==
    /\ i \in 1..Len(alerts) => Len(alerts[i].responseTeams) < MaxAssignments
    /\ IF i \notin 1..Len(alerts)
       THEN /\ reply' = [route |-> "alerts/assign-team", body |-> teamId,
                        status |-> 404]
            /\ UNCHANGED alerts
       ELSE IF isAlreadyAssigned(alerts[i].responseTeams, teamId)
       THEN /\ reply' = [route |-> "alerts/assign-team", body |-> teamId,
                        status |-> 400]
            /\ UNCHANGED alerts
       ELSE /\ reply' = [route |-> "alerts/assign-team", body |-> teamId,
                        status |-> 200]
            /\ alerts' = [alerts EXCEPT ![i].responseTeams =
                             Append(@, pushedTeam(teamId, now, "dispatched"))]
    /\ UNCHANGED <<now, advances, sensors, tick, ticksStarted, overlapped,
                   classifyVars, report, arrived, request, failure, team, user>>

\* The collection holds one alert; assign-team requests come one at a time.
NextAssign ==
    \/ \E i \in AlertIds, id \in TeamIdTexts : AssignTeam(i, id)
    \/ \E d \in TimeSteps : Advance(d)

SpecAssign == InitRoutes /\ [][NextAssign]_vars

\* the status enumeration of the DisasterReport schema
ReportStatuses == {"reported", "verified", "in_progress", "resolved", "false_alarm"}
\* req.params.id of the report routes: the report, or the id of no report
ReportParams == {"report", "none"}

\* PATCH /reports/:id/assign-team, the whole handler: 404 for no report, 400
\* for a team found in assignedTeams, otherwise the team is pushed, a
\* reported report becomes in_progress, and save() runs the middleware
AssignTeamToReport(id, teamId) ==
    /\ Len(report.assignedTeams) < MaxAssignments
    /\ IF id # "report"
       THEN /\ reply' = [route |-> "reports/assign-team", body |-> teamId,
                        status |-> 404]
            /\ UNCHANGED report
       ELSE IF isAlreadyAssigned(report.assignedTeams, teamId)
       THEN /\ reply' = [route |-> "reports/assign-team", body |-> teamId,
                        status |-> 400]
            /\ UNCHANGED report
       ELSE /\ reply' = [route |-> "reports/assign-team", body |-> teamId,
                        status |-> 200]
            /\ report' = preSave(
                  [report EXCEPT
                     !.assignedTeams = Append(@, pushedTeam(teamId, now, "assigned")),
                     !.status = IF @ = "reported" THEN "in_progress" ELSE @,
                     !.updatedAt = now], now)
    /\ UNCHANGED <<now, advances, sensors, alerts, tick, ticksStarted, overlapped,
                   classifyVars, arrived, request, failure, team, user>>

\* PATCH /reports/:id/status with a status of the list, for a report that
\* exists: findByIdAndUpdate writes the status and runs no middleware
UpdateReportStatus(status) ==
    /\ report' = [report EXCEPT !.status = status, !.updatedAt = now]
    /\ reply' = [route |-> "reports/status", body |-> status, status |-> 200]
    /\ UNCHANGED <<now, advances, sensors, alerts, tick, ticksStarted, overlapped,
                   classifyVars, arrived, request, failure, team, user>>

\* One report, a flood of medium severity saved at time 0; the requests come
\* one at a time.
InitReportTeams ==
    /\ now = 0
    /\ advances = 0
    /\ sensors = oneActive("seismic")
    /\ alerts = <<>>
    /\ tick = [t \in Ticks |-> idleTick]
    /\ ticksStarted = 0
    /\ overlapped = FALSE
    /\ cValue = 0
    /\ cThresholds = [warning |-> 0, critical |-> 0]
    /\ cStatus = "unclassified"
    /\ report = preSave([newReport("flood", "medium", Unset) EXCEPT
                            !.createdAt = 0, !.updatedAt = 0], 0)
    /\ arrived = [id \in SensorIdSet |-> <<>>]
    /\ request = [r \in Requests |-> idleRequest]
    /\ failure = NoFailure
    /\ team = NoTeam
    /\ user = NoUser
    /\ reply = NoReply

NextReportTeams ==
    \/ \E id \in ReportParams, t \in TeamIdTexts : AssignTeamToReport(id, t)
    \/ \E st \in ReportStatuses : UpdateReportStatus(st)
    \/ \E d \in TimeSteps : Advance(d)

SpecReportTeams == InitReportTeams /\ [][NextReportTeams]_vars

\* ------------------------------------------------------------------ teams

\* Largest number of missions counted for the team.
MaxMissions == 3

\* the status enumeration of the Team schema, and const validStatuses
TeamStatuses == {"available", "deployed", "busy", "maintenance"}
\* req.body.status of PATCH /teams/:id/status: a valid one, or another word
BodyStatuses == TeamStatuses \cup {"retired"}
\* req.params.id of the team routes: the team, or the id of no team
TeamParams == {"team-001", "team-404"}
\* req.body.successful of PATCH /teams/:id/complete: absent, true or false
BodySuccessful == {"", "true", "false"}
\* req.body.priority of PATCH /teams/:id/assign: absent, or a priority
BodyPriorities == {"", "high"}
\* no currentAssignment
NoAssignment == [none |-> TRUE]

\* a Team document with the defaults of the schema
newTeam(teamId) ==
    [teamId |-> teamId,
     status |-> "available",
     currentAssignment |-> NoAssignment,
     totalMissions |-> 0,
     successfulMissions |-> 0,
     lastMissionDate |-> Unset]

\* a mutant: a busy team counts as available
isAvailableOrBusy(doc) == doc.status \in {"available", "busy"}

\* teamSchema.virtual('isAvailable')
isAvailable(doc) == doc.status = "available"

\* teamSchema.methods.assignToAlert, with the default of priority
assignToAlert(doc, alertId, priority, at) ==
    [doc EXCEPT
       !.status = "deployed",
       !.currentAssignment =
           [alertId |-> alertId, assignedAt |-> at,
            priority |-> IF priority = "" THEN "medium" ELSE priority],
       !.totalMissions = @ + 1]

\* teamSchema.methods.completeMission; successful is true when the body has
\* none
completeMission(doc, successful, at) ==
    [doc EXCEPT
       !.successfulMissions = IF successful \in {"", "true"} THEN @ + 1 ELSE @,
       !.status = "available",
       !.lastMissionDate = at,
       !.currentAssignment = NoAssignment]

\* the answer of a team route
teamReply(route, body, status) ==
    [route |-> route, body |-> body, status |-> status]

\* PATCH /teams/:id/assign, the whole handler
AssignToAlert(id, priority) ==
    /\ team.totalMissions < MaxMissions
    /\ IF id # team.teamId
       THEN /\ reply' = teamReply("teams/assign", priority, 404)
            /\ UNCHANGED team
       ELSE IF ~isAvailable(team)
       THEN /\ reply' = teamReply("teams/assign", priority, 400)
            /\ UNCHANGED team
       ELSE /\ reply' = teamReply("teams/assign", priority, 200)
            /\ team' = assignToAlert(team, 1, priority, now)
    /\ UNCHANGED <<now, advances, sensors, alerts, tick, ticksStarted, overlapped,
                   classifyVars, report, arrived, request, failure, user>>

\* PATCH /teams/:id/complete, the whole handler
CompleteMission(id, successful) ==
    /\ team.successfulMissions < MaxMissions
    /\ IF id # team.teamId
       THEN /\ reply' = teamReply("teams/complete", successful, 404)
            /\ UNCHANGED team
       ELSE IF team.status # "deployed"
       THEN /\ reply' = teamReply("teams/complete", successful, 400)
            /\ UNCHANGED team
       ELSE /\ reply' = teamReply("teams/complete", successful, 200)
            /\ team' = completeMission(team, successful, now)
    /\ UNCHANGED <<now, advances, sensors, alerts, tick, ticksStarted, overlapped,
                   classifyVars, report, arrived, request, failure, user>>

\* PATCH /teams/:id/status, the whole handler: 400 for a status outside
\* validStatuses, 404 for no team, otherwise the status is stored as sent
UpdateStatus(id, status) ==
    /\ IF status \notin TeamStatuses
       THEN /\ reply' = teamReply("teams/status", status, 400)
            /\ UNCHANGED team
       ELSE IF id # team.teamId
       THEN /\ reply' = teamReply("teams/status", status, 404)
            /\ UNCHANGED team
       ELSE /\ reply' = teamReply("teams/status", status, 200)
            /\ team' = [team EXCEPT !.status = status]
    /\ UNCHANGED <<now, advances, sensors, alerts, tick, ticksStarted, overlapped,
                   classifyVars, report, arrived, request, failure, user>>

\* One team, new; the requests to the team routes come one at a time.
InitTeams ==
    /\ now = 0
    /\ advances = 0
    /\ sensors = oneActive("seismic")
    /\ alerts = <<>>
    /\ tick = [t \in Ticks |-> idleTick]
    /\ ticksStarted = 0
    /\ overlapped = FALSE
    /\ cValue = 0
    /\ cThresholds = [warning |-> 0, critical |-> 0]
    /\ cStatus = "unclassified"
    /\ report = NoReport
    /\ arrived = [id \in SensorIdSet |-> <<>>]
    /\ request = [r \in Requests |-> idleRequest]
    /\ failure = NoFailure
    /\ team = newTeam("team-001")
    /\ user = NoUser
    /\ reply = NoReply

NextTeams ==
    \/ \E id \in TeamParams, p \in BodyPriorities : AssignToAlert(id, p)
    \/ \E id \in TeamParams, ok \in BodySuccessful : CompleteMission(id, ok)
    \/ \E id \in TeamParams, st \in BodyStatuses : UpdateStatus(id, st)
    \/ \E d \in TimeSteps : Advance(d)

SpecTeams == InitTeams /\ [][NextTeams]_vars

\* ------------------------------------------------------------------ login

\* 2 * 60 * 60 * 1000: the two hours of a lock
LockMs == 7200000
\* this.loginAttempts >= 5
LockAfterAttempts == 5
\* the clock of a login moves by a second or by the two hours of a lock
LoginSteps == {1000, LockMs}
\* candidatePassword: the user's password, or another
Candidates == {"right", "wrong"}

\* the errors comparePassword throws
LockedError == "Account is locked. Try again later."
InvalidError == "Invalid password"

\* bcrypt.hash, and bcrypt.compare of a candidate with a hash
bcryptHash(password) == [hashOf |-> password]
bcryptCompare(candidate, hash) == hash = bcryptHash(candidate)

\* a User document as saved the first time, the password hashed by the
\* pre('save') middleware
newUser(password) ==
    [password |-> bcryptHash(password),
     loginAttempts |-> 0,
     lockUntil |-> Unset,
     lastLogin |-> Unset]

\* userSchema.virtual('isLocked') at Date.now() = at
isLocked(doc, at) == doc.lockUntil # Unset /\ doc.lockUntil > at

\* a mutant: the lock lasts one hour
failedAttemptShortLock(doc, at) ==
    LET attempts == doc.loginAttempts + 1
    IN [doc EXCEPT !.loginAttempts = attempts,
                   !.lockUntil = IF attempts >= LockAfterAttempts
                                 THEN at + LockMs \div 2 ELSE @]

\* comparePassword on a mismatch: one attempt more, and the lock from the
\* fifth on
failedAttempt(doc, at) ==
    LET attempts == doc.loginAttempts + 1
    IN [doc EXCEPT !.loginAttempts = attempts,
                   !.lockUntil = IF attempts >= LockAfterAttempts
                                 THEN at + LockMs ELSE @]

\* a mutant: the attempts are reset, the lock is kept
successfulLoginKeepsLock(doc, at) ==
    [doc EXCEPT !.loginAttempts = 0, !.lastLogin = at]

\* comparePassword on a match: attempts and lock are reset when there were
\* attempts, lastLogin is set
successfulLogin(doc, at) ==
    [doc EXCEPT !.loginAttempts = 0,
                !.lockUntil = IF doc.loginAttempts > 0 THEN Unset ELSE @,
                !.lastLogin = at]

\* what a comparePassword call ends with: an error thrown, or none
loginReply(candidate, error) ==
    [route |-> "comparePassword", body |-> candidate, error |-> error]

\* user.comparePassword(candidatePassword), the whole call
ComparePassword(candidate) ==
    /\ IF isLocked(user, now)
       THEN /\ reply' = loginReply(candidate, LockedError)
            /\ UNCHANGED user
       ELSE IF ~bcryptCompare(candidate, user.password)
       THEN /\ reply' = loginReply(candidate, InvalidError)
            /\ user' = failedAttempt(user, now)
       ELSE /\ reply' = loginReply(candidate, "")
            /\ user' = successfulLogin(user, now)
    /\ UNCHANGED <<now, advances, sensors, alerts, tick, ticksStarted, overlapped,
                   classifyVars, report, arrived, request, failure, team>>

\* One user, new; the comparePassword calls come one at a time.
InitLogin ==
    /\ now = 0
    /\ advances = 0
    /\ sensors = oneActive("seismic")
    /\ alerts = <<>>
    /\ tick = [t \in Ticks |-> idleTick]
    /\ ticksStarted = 0
    /\ overlapped = FALSE
    /\ cValue = 0
    /\ cThresholds = [warning |-> 0, critical |-> 0]
    /\ cStatus = "unclassified"
    /\ report = NoReport
    /\ arrived = [id \in SensorIdSet |-> <<>>]
    /\ request = [r \in Requests |-> idleRequest]
    /\ failure = NoFailure
    /\ team = NoTeam
    /\ user = newUser("right")
    /\ reply = NoReply

NextLogin ==
    \/ \E c \in Candidates : ComparePassword(c)
    \/ \E d \in LoginSteps : Advance(d)

SpecLogin == InitLogin /\ [][NextLogin]_vars

\* ------------------------------------------------------------------ claims

\* two alerts of one (sensorId, type, severity)
sameTriple(a, b) ==
    /\ a.sensorData.sensorId = b.sensorData.sensorId
    /\ a.type = b.type
    /\ a.severity = b.severity

\* an unresolved alert created in the trailing five minutes
inWindow(a) == a.resolved = FALSE /\ a.createdAt >= now - DedupWindowMs

AtMostOneInWindow ==
    \A i, j \in 1..Len(alerts) :
        (i < j /\ sameTriple(alerts[i], alerts[j]))
            => ~(inWindow(alerts[i]) /\ inWindow(alerts[j]))

\* C1 as stated: in every reachable state, overlapping simulateSensorData
\* calls included, each (sensorId, type, severity) has at most one unresolved
\* alert created in the trailing five minutes.
C1_DedupInvariantAlways == AtMostOneInWindow

\* C1, amended: as long as no two simulateSensorData calls have run at the
\* same time, each (sensorId, type, severity) has at most one unresolved
\* alert created in the trailing five minutes, whatever resolve requests and
\* delays come in between.
C1_DedupInvariantSequential == ~overlapped => AtMostOneInWindow

\* C1 witness: calls one after the other have stored two unresolved alerts of
\* one triple, the older one more than five minutes before the newer.
C1_Witness ==
    /\ ~overlapped
    /\ \E i, j \in 1..Len(alerts) :
          /\ i < j
          /\ sameTriple(alerts[i], alerts[j])
          /\ alerts[i].resolved = FALSE
          /\ alerts[j].resolved = FALSE
          /\ alerts[j].createdAt - alerts[i].createdAt > DedupWindowMs

\* the sensor document a call is evaluating
evaluated(t) == sensors[current(t)]

\* the step in which Alert.findOne answers call t
findOneStep(t) == tick[t].pc = "findOne" /\ tick'[t] # tick[t]

\* that step builds a new alert and calls save()
createsAlert(t) ==
    /\ tick'[t].pc = "save"
    /\ tick'[t].pending # NoAlert
    /\ tick'[t].pending.sensorData.sensorId = current(t)
    /\ tick'[t].pending.severity = tick[t].alertStatus

\* that step moves on without an alert
createsNone(t) ==
    /\ tick'[t].pc # "save"
    /\ tick'[t].pending = NoAlert
    /\ alerts' = alerts

\* stored alerts of the evaluated sensor with the reading's classification
\* as severity, none of them resolved
sameClassUnresolved(t) ==
    {i \in 1..Len(alerts) :
        /\ alerts[i].sensorData.sensorId = current(t)
        /\ alerts[i].severity = tick[t].alertStatus
        /\ alerts[i].resolved = FALSE}

\* the instant the evaluation built its query
evaluatedAt(t) == tick[t].queriedAt

\* C2: an evaluation that finds a stored, unresolved alert of its sensor and
\* classification created less than five minutes before it creates no alert.
C2_DedupWithinWindow ==
    [][\A t \in Ticks :
         (/\ findOneStep(t)
          /\ \E i \in sameClassUnresolved(t) :
                evaluatedAt(t) - alerts[i].createdAt < DedupWindowMs)
            => createsNone(t)]_vars

\* readings of a sensor with one non-normal classification, taken less than
\* five minutes apart
closeReadings(id, st) ==
    \E m, n \in 1..Len(sensors[id].readings) :
        LET r1 == sensors[id].readings[m]
            r2 == sensors[id].readings[n]
        IN /\ m < n
           /\ getAlertStatus(sensors[id].thresholds, r1.value) = st
           /\ getAlertStatus(sensors[id].thresholds, r2.value) = st
           /\ r2.timestamp - r1.timestamp < DedupWindowMs

\* C2 witness: one sensor was evaluated twice by calls one after the other,
\* both readings critical and less than five minutes apart, nothing was
\* resolved, and exactly one alert is stored.
C2_Witness ==
    /\ ~overlapped
    /\ \A t \in Ticks : tick[t].pc = "idle"
    /\ closeReadings("sensor-001", "critical")
    /\ Len(alerts) = 1
    /\ alerts[1].severity = "critical"
    /\ alerts[1].resolved = FALSE

\* C3: an unresolved alert of the same sensor and classification that is
\* exactly five minutes old still suppresses; when every such alert is older
\* than five minutes (one second older is enough) the evaluation creates an
\* alert.
C3_DedupExpiry ==
    [][\A t \in Ticks :
         findOneStep(t) =>
            /\ (\E i \in sameClassUnresolved(t) :
                   evaluatedAt(t) - alerts[i].createdAt = DedupWindowMs)
                 => createsNone(t)
            /\ (\A i \in sameClassUnresolved(t) :
                   evaluatedAt(t) - alerts[i].createdAt > DedupWindowMs)
                 => createsAlert(t)]_vars

\* C3 witness: two unresolved alerts of one triple, created five minutes and
\* one second apart.
C3_Witness ==
    \E i, j \in 1..Len(alerts) :
        /\ sameTriple(alerts[i], alerts[j])
        /\ alerts[i].resolved = FALSE
        /\ alerts[j].resolved = FALSE
        /\ alerts[j].createdAt - alerts[i].createdAt = DedupWindowMs + 1000

\* the alert type the table gives a sensor type
tableType ==
    [ty \in SensorTypes |->
        IF ty = "seismic" THEN "earthquake"
        ELSE IF ty = "water_level" THEN "flood"
        ELSE IF ty = "wind_speed" THEN "storm"
        ELSE IF ty = "temperature" THEN "heatwave"
        ELSE IF ty = "air_quality" THEN "pollution"
        ELSE "other"]

\* C4: an evaluation is suppressed only by a stored alert that is unresolved,
\* inside the window and equal to the new one in sensorId, type and severity:
\* not by an alert of another severity, nor by one of another sensor.
C4_DedupScope ==
    [][\A t \in Ticks :
         (findOneStep(t) /\ createsNone(t)) =>
            \E i \in 1..Len(alerts) :
                /\ alerts[i].sensorData.sensorId = current(t)
                /\ alerts[i].type = tableType[evaluated(t).type]
                /\ alerts[i].severity = tick[t].alertStatus
                /\ alerts[i].resolved = FALSE
                /\ evaluatedAt(t) - alerts[i].createdAt <= DedupWindowMs]_vars

\* C4 witness: inside one window there are, all unresolved, a warning and a
\* critical alert of one sensor and a warning alert of another sensor of the
\* same type.
C4_Witness ==
    \E i, j, k \in 1..Len(alerts) :
        /\ inWindow(alerts[i]) /\ inWindow(alerts[j]) /\ inWindow(alerts[k])
        /\ alerts[i].sensorData.sensorId = alerts[j].sensorData.sensorId
        /\ alerts[i].severity = "warning"
        /\ alerts[j].severity = "critical"
        /\ alerts[k].sensorData.sensorId # alerts[i].sensorData.sensorId
        /\ alerts[k].type = alerts[i].type
        /\ alerts[k].severity = "warning"

\* C5: when the stored alerts of the evaluated sensor and classification that
\* lie inside the window are all resolved, and there is at least one, the
\* evaluation creates a fresh alert at once.
C5_RetriggerAfterResolve ==
    [][\A t \in Ticks :
         (/\ findOneStep(t)
          /\ \E i \in 1..Len(alerts) :
                /\ alerts[i].sensorData.sensorId = current(t)
                /\ alerts[i].severity = tick[t].alertStatus
                /\ evaluatedAt(t) - alerts[i].createdAt <= DedupWindowMs
                /\ alerts[i].resolved
          /\ \A i \in sameClassUnresolved(t) :
                evaluatedAt(t) - alerts[i].createdAt > DedupWindowMs)
            => createsAlert(t)]_vars

\* C5 witness: an alert was resolved and a second alert of the same triple
\* was created after that, less than five minutes after the first.
C5_Witness ==
    \E i, j \in 1..Len(alerts) :
        /\ i < j
        /\ sameTriple(alerts[i], alerts[j])
        /\ alerts[i].resolved
        /\ alerts[i].resolution = "Resolved by system"
        /\ alerts[i].resolvedAt <= alerts[j].createdAt
        /\ alerts[j].createdAt - alerts[i].createdAt < DedupWindowMs
        /\ alerts[j].resolved = FALSE

\* C6: getAlertStatus is critical exactly for value >= critical, warning
\* exactly for critical > value >= warning, normal otherwise.
C6_Classification ==
    cStatus # "unclassified" =>
        /\ (cStatus = "critical") = (cValue >= cThresholds.critical)
        /\ (cStatus = "warning") =
              (cValue < cThresholds.critical /\ cValue >= cThresholds.warning)
        /\ (cStatus = "normal") =
              (cValue < cThresholds.critical /\ cValue < cThresholds.warning)

\* C6 witness: a value equal to the critical threshold, above the warning
\* threshold, classified critical.
C6_Witness ==
    /\ cStatus = "critical"
    /\ cValue = cThresholds.critical
    /\ cThresholds.warning < cThresholds.critical

\* C7 as stated: whatever the thresholds, a value below the warning threshold
\* is classified normal.
C7_NormalBelowWarning ==
    (cStatus # "unclassified" /\ cValue < cThresholds.warning)
        => cStatus = "normal"

\* C7, amended: a value below the warning threshold is classified normal
\* when it is also below the critical threshold (always so when critical >=
\* warning), and critical when the critical threshold is at or below it.
C7_NormalBelowBoth ==
    (cStatus # "unclassified" /\ cValue < cThresholds.warning) =>
        /\ cValue < cThresholds.critical => cStatus = "normal"
        /\ cValue >= cThresholds.critical => cStatus = "critical"

\* C7 witness: thresholds in order, a value just below warning, classified
\* normal.
C7_Witness ==
    /\ cStatus = "normal"
    /\ cThresholds.warning <= cThresholds.critical
    /\ cValue = cThresholds.warning - 1

\* the step in which call t stores a reading of the sensor it is on
readingStep(t) ==
    /\ tick[t].pc = "gen"
    /\ Len(sensors'[current(t)].readings) = Len(sensors[current(t)].readings) + 1

\* the value of that reading
readingValue(t) ==
    sensors'[current(t)].readings[Len(sensors'[current(t)].readings)].value

\* C8: a reading below both thresholds, which is a normal one, leaves the
\* alerts as they are and takes the call to the next sensor with no query
\* and no alert in hand, whatever alerts are stored.
C8_NormalCreatesNothing ==
    [][\A t \in Ticks :
         (/\ readingStep(t)
          /\ readingValue(t) < evaluated(t).thresholds.warning
          /\ readingValue(t) < evaluated(t).thresholds.critical)
            => /\ alerts' = alerts
               /\ tick'[t].pc \in {"gen", "idle"}
               /\ tick'[t].pending = NoAlert]_vars

\* C8 witness: the latest reading of a sensor is a normal one, taken while an
\* unresolved alert of that sensor was inside the window and a resolved one
\* was stored, and the alerts are those two.
C8_Witness ==
    \E id \in SensorIdSet :
        /\ sensors[id].currentReading.status = "normal"
        /\ sensors[id].currentReading.timestamp = now
        /\ \A t \in Ticks : tick[t].pc \in {"idle", "gen"}
        /\ Len(alerts) = 2
        /\ \E i, j \in 1..2 :
              /\ alerts[i].resolved
              /\ inWindow(alerts[j])
              /\ alerts[j].sensorData.sensorId = id
              /\ alerts[j].createdAt < now

\* every alert the pipeline holds: the stored ones and those about to be saved
pipelineAlerts ==
    {alerts[i] : i \in 1..Len(alerts)}
        \cup {tick[t].pending : t \in {u \in Ticks : tick[u].pc = "save"}}

\* C9: every alert of the pipeline has the type the table gives its sensor's
\* type, and the severity of its reading: critical for a value at or above
\* the critical threshold, warning otherwise; never moderate or info.
C9_TypeAndSeverity ==
    \A a \in pipelineAlerts :
        LET s == sensors[a.sensorData.sensorId]
        IN /\ a.type = tableType[s.type]
           /\ a.severity \in {"critical", "warning"}
           /\ a.severity = IF a.sensorData.value >= s.thresholds.critical
                           THEN "critical" ELSE "warning"
           /\ a.sensorData.value >= s.thresholds.warning

\* C9 witness: a temperature sensor has a heatwave alert of each severity.
C9_Witness ==
    /\ sensors["sensor-001"].type = "temperature"
    /\ \E i, j \in 1..Len(alerts) :
          /\ alerts[i].type = "heatwave" /\ alerts[i].severity = "critical"
          /\ alerts[j].type = "heatwave" /\ alerts[j].severity = "warning"

\* the impact table: critical, warning
tableImpact(sensorType, severity) ==
    LET row == IF sensorType = "seismic" THEN <<10000, 5000>>
               ELSE IF sensorType = "water_level" THEN <<8000, 4000>>
               ELSE IF sensorType = "wind_speed" THEN <<6000, 3000>>
               ELSE IF sensorType = "temperature" THEN <<12000, 6000>>
               ELSE IF sensorType = "air_quality" THEN <<15000, 8000>>
               ELSE <<1000, 1000>>
    IN IF severity = "critical" THEN row[1] ELSE row[2]

\* C10: estimatedImpact of every alert of the pipeline is the table's figure
\* for its sensor's type and its severity, 1000 for the types the table does
\* not list; a seismic sensor with thresholds 3.0 and 4.0 reading 4.0 gives
\* earthquake, critical, 10000.
C10_EstimatedImpact ==
    \A a \in pipelineAlerts :
        LET s == sensors[a.sensorData.sensorId]
        IN /\ a.estimatedImpact = tableImpact(s.type, a.severity)
           /\ (/\ s.type = "seismic"
               /\ s.thresholds = [warning |-> 30, critical |-> 40]
               /\ a.sensorData.value = 40)
                => /\ a.type = "earthquake"
                   /\ a.severity = "critical"
                   /\ a.estimatedImpact = 10000

\* C10 witness: the seismic sensor read 4.0 and its earthquake alert with
\* impact 10000 is stored.
C10_Witness ==
    \E i \in 1..Len(alerts) :
        /\ sensors[alerts[i].sensorData.sensorId].type = "seismic"
        /\ alerts[i].sensorData.value = 40
        /\ alerts[i].estimatedImpact = 10000
        /\ alerts[i].type = "earthquake"

\* the type enumeration of the Alert schema
AlertTypeEnum ==
    {"earthquake", "flood", "storm", "fire", "pollution", "heatwave", "other"}

\* what the save of a pipeline alert validates: type in the enumeration,
\* a message, a number as the impact
passesValidation(a) ==
    /\ a.type \in AlertTypeEnum
    /\ a.message.template # ""
    /\ a.estimatedImpact \in Nat

\* the templates as the message rule lists them: five hazards, the rest the
\* default
statedTemplate ==
    [ty \in SensorTypes |->
       CASE ty = "seismic" -> "Seismic activity detected"
         [] ty = "water_level" -> "Rising water levels detected"
         [] ty = "wind_speed" -> "High wind speeds detected"
         [] ty = "temperature" -> "Extreme temperature detected"
         [] ty = "air_quality" -> "Poor air quality detected"
         [] OTHER -> "Sensor anomaly detected"]

\* the same, humidity and pressure having a template of their own
tableTemplate ==
    [ty \in SensorTypes |->
       CASE ty = "humidity" -> "Unusual humidity levels"
         [] ty = "pressure" -> "Atmospheric pressure anomaly"
         [] OTHER -> statedTemplate[ty]]

saved == report # NoReport /\ report.updatedAt # Unset

\* the age of the report at its last save
ageAtSave == report.updatedAt - report.createdAt

\* C12: the priority of a report is a whole number from 1 to 10, before and
\* after every save, for every type, severity (one outside the table
\* included), age and number of affected people (none included).
C12_PriorityRange ==
    report # NoReport => report.priority \in 1..10

\* C12 witness: a saved report of a severity outside the table, without a
\* number of affected people, has priority 5.
C12_Witness ==
    /\ saved
    /\ report.severity = "unlisted"
    /\ report.estimated = Unset
    /\ report.type = "flood"
    /\ report.priority = 5

\* C13: a priority computed later is never below the one computed before,
\* the report's type, severity, createdAt and affected people being the same.
C13_MonotoneInAge ==
    [][saved => report'.priority >= report.priority]_vars

\* C13 witness: a report of medium severity saved again after more than two
\* days has risen from 5 to 9.
C13_Witness ==
    /\ saved
    /\ ageAtSave > 48 * HourMs
    /\ report.severity = "medium"
    /\ report.type = "flood"
    /\ report.estimated = Unset
    /\ report.priority = 9

\* the score as the scoring rule states it: 5 x s x t x a x p, rounded, at
\* most 10, with one age factor only: 1.5 above 48 hours, 1.2 above 24
statedScore(doc, at) ==
    LET s == CASE doc.severity = "low" -> 5
               [] doc.severity = "high" -> 15
               [] doc.severity = "critical" -> 20
               [] OTHER -> 10
        t == IF doc.type \in {"earthquake", "fire", "building_collapse", "gas_leak"}
             THEN 15 ELSE 10
        age == at - doc.createdAt
        a == IF age > 48 * HourMs THEN 15
             ELSE IF age > 24 * HourMs THEN 12 ELSE 10
        p == IF doc.estimated # Unset /\ doc.estimated > 10 THEN 13 ELSE 10
        product == 5 * s * t * a * p
        rounded == (2 * product + 10000) \div 20000
    IN IF rounded > 10 THEN 10 ELSE rounded

\* C14: the age tiers exclude each other: the priority of a saved report is
\* the stated score at every age, a report older than 48 hours having the
\* factor 1.5 only.
C14_ExclusiveTiers ==
    saved => report.priority = statedScore(report, report.updatedAt)

\* C15: the priority of a report saved at an age of at most 48 hours is
\* min(round(5 x s x t x a x p), 10), a being 1.2 above 24 hours and p being
\* 1.3 above 10 affected people and for no fewer.
C15_ScoreUpTo48h ==
    (saved /\ ageAtSave <= 48 * HourMs)
        => report.priority = statedScore(report, report.updatedAt)

\* C15 witness: a flood of high severity with 15 people affected, saved 30
\* hours old, has priority 10.
C15_Witness ==
    /\ saved
    /\ report.type = "flood"
    /\ report.severity = "high"
    /\ report.estimated = 15
    /\ ageAtSave = 30 * HourMs
    /\ report.priority = 10

\* C16: every save stores the priority that calculatePriority gives a fresh
\* document of the same type, severity, createdAt and affected people at the
\* time of the save, whatever was stored before; a second save at the same
\* time leaves the priority as it is.
C16_RecomputedOnSave ==
    [][now' = now =>
         LET fresh == [newReport(report'.type, report'.severity, report'.estimated)
                         EXCEPT !.createdAt = report'.createdAt]
         IN /\ report'.priority = calculatePriority(fresh, now).priority
            /\ (saved /\ report.updatedAt = now) => report'.priority = report.priority
      ]_vars

\* C16 witness: a flood of medium severity with ten people affected, stored
\* with priority 5, has been saved again more than a day old, and holds 6.
C16_Witness ==
    /\ saved
    /\ ageAtSave > 24 * HourMs
    /\ ageAtSave <= 48 * HourMs
    /\ report.type = "flood"
    /\ report.severity = "medium"
    /\ report.estimated = 10
    /\ report.priority = 6

\* C17: after n addReading calls on a sensor, one after the other, its
\* readings are the min(n, 1000) most recent ones in the order they
\* arrived: never more than 1000, the oldest ones gone.
C17_BufferHoldsMostRecent ==
    \A id \in SensorIdSet :
        LET n == Len(arrived[id])
            k == IF n < 1000 THEN n ELSE 1000
            kept == sensors[id].readings
        IN /\ Len(kept) = k
           /\ \A j \in 1..k : kept[j] = arrived[id][n - k + j]

\* C17 witness: the sensor has had 1002 readings; its buffer holds 1000, the
\* first of them the third that arrived.
C17_Witness ==
    /\ Len(arrived[PostedSensor]) = 1002
    /\ Len(sensors[PostedSensor].readings) = 1000
    /\ sensors[PostedSensor].readings[1] = arrived[PostedSensor][3]
    /\ arrived[PostedSensor][2] # arrived[PostedSensor][3]

\* the simulation has touched the sensor: it is in the list of a call, has a
\* reading, or has an alert
touched(id) ==
    \/ \E t \in Ticks : \E k \in 1..Len(tick[t].list) : tick[t].list[k] = id
    \/ sensors[id].readings # <<>>
    \/ sensors[id].currentReading.value # Unset
    \/ arrived[id] # <<>>
    \/ \E a \in pipelineAlerts : a.sensorData.sensorId = id

\* C18: a sensor whose status is inactive, maintenance or error gets no
\* reading and no alert from a simulation call: only active sensors are in
\* its list.
C18_OnlyActiveParticipate ==
    \A id \in SensorIdSet :
        sensors[id].status \in {"inactive", "maintenance", "error"} => ~touched(id)

\* C18 witness: the active sensor has a reading and an alert, a sensor in
\* maintenance and one in error have nothing.
C18_Witness ==
    /\ sensors["sensor-001"].status = "active"
    /\ sensors["sensor-001"].readings # <<>>
    /\ \E i \in 1..Len(alerts) : alerts[i].sensorData.sensorId = "sensor-001"
    /\ sensors["seismic-001"].status = "maintenance"
    /\ sensors["seismic-002"].status = "error"
    /\ ~touched("seismic-001")
    /\ ~touched("seismic-002")

\* handler r takes up a request on route for alert i in this step
takesUp(r, route, i) ==
    /\ request[r].pc \in {"idle", "done"}
    /\ request'[r] # request[r]
    /\ request'[r].route = route
    /\ request'[r].id = i

\* handler r rejects the request it takes up in this step: it answers 400
\* and calls no save
rejected(r) ==
    /\ request'[r].pc = "done"
    /\ request'[r].status = 400

\* C19: with one request at a time, no alert leaves the collection, a flag
\* that is true stays true, and an acknowledge (resolve) request for an
\* alert already acknowledged (resolved) is answered 400 and leaves
\* acknowledgedAt (resolvedAt and resolution) as they are.
C19_FlagsOneShot ==
    [][/\ Len(alerts') >= Len(alerts)
       /\ \A i \in 1..Len(alerts) :
            /\ alerts'[i].createdAt = alerts[i].createdAt
            /\ alerts'[i].sensorData = alerts[i].sensorData
            /\ alerts[i].acknowledged =>
                  /\ alerts'[i].acknowledged
                  /\ alerts'[i].acknowledgedAt = alerts[i].acknowledgedAt
                  /\ \A r \in Requests : takesUp(r, "acknowledge", i) => rejected(r)
            /\ alerts[i].resolved =>
                  /\ alerts'[i].resolved
                  /\ alerts'[i].resolvedAt = alerts[i].resolvedAt
                  /\ alerts'[i].resolution = alerts[i].resolution
                  /\ \A r \in Requests : takesUp(r, "resolve", i) => rejected(r)
      ]_vars

\* C19 witness: the alert was acknowledged and resolved, and a later resolve
\* request with another resolution was answered 400; the stored resolution
\* is the first.
C19_Witness ==
    /\ alerts[1].acknowledged
    /\ alerts[1].resolved
    /\ alerts[1].resolvedAt < now
    /\ alerts[1].resolution = "Resolved by system"
    /\ request[1].pc = "done"
    /\ request[1].route = "resolve"
    /\ request[1].id = 1
    /\ request[1].resolution = "sandbagged"
    /\ request[1].status = 400

\* handler r has answered a resolve request with success
resolveSucceeded(r) ==
    /\ request[r].pc = "done"
    /\ request[r].route = "resolve"
    /\ request[r].status = 200

\* C20: of two resolve requests for one unresolved alert handled at once, at
\* most one is answered with success, and the alert holds the resolution
\* and resolvedAt of the request that succeeded.
C20_OneResolveSucceeds ==
    /\ \A r, q \in Requests :
          (r # q /\ resolveSucceeded(r) /\ resolveSucceeded(q))
              => request[r].id # request[q].id
    /\ \A r \in Requests :
          resolveSucceeded(r) =>
              /\ alerts[request[r].id].resolution = request[r].doc.resolution
              /\ alerts[request[r].id].resolvedAt = request[r].doc.resolvedAt

\* no team twice in a list of assigned teams
assignedOnce(teams) ==
    \A j, k \in 1..Len(teams) : j # k => teams[j].teamId # teams[k].teamId

\* C21: with assign-team requests to an alert taken one at a time, no team
\* is twice in the alert's responseTeams, and every team in it has the
\* status dispatched.
C21_TeamsAssignedOnce ==
    \A i \in 1..Len(alerts) :
        /\ assignedOnce(alerts[i].responseTeams)
        /\ \A k \in 1..Len(alerts[i].responseTeams) :
              alerts[i].responseTeams[k].status = "dispatched"

\* this step answers a request to the route
answers(route) == reply'.route = route /\ <<reply, team>>' # <<reply, team>>

\* C22: an assign request succeeds only for a team that is available, and
\* then the team is deployed, has a currentAssignment and one mission more;
\* a complete request succeeds only for a team that is deployed, and then
\* the team is available, has no currentAssignment and one successful
\* mission more exactly when the mission was successful; a request that
\* does not succeed is answered 400 (404 for no team) and leaves the team
\* as it is.
C22_DispatchGuards ==
    [][/\ answers("teams/assign") =>
            IF reply'.status = 200
            THEN /\ team.status = "available"
                 /\ team'.status = "deployed"
                 /\ team'.currentAssignment # NoAssignment
                 /\ team'.currentAssignment.assignedAt = now
                 /\ team'.totalMissions = team.totalMissions + 1
                 /\ team'.successfulMissions = team.successfulMissions
            ELSE /\ team' = team
                 /\ reply'.status \in {400, 404}
                 /\ (reply'.status = 400) => team.status # "available"
       /\ answers("teams/complete") =>
            IF reply'.status = 200
            THEN /\ team.status = "deployed"
                 /\ team'.status = "available"
                 /\ team'.currentAssignment = NoAssignment
                 /\ team'.totalMissions = team.totalMissions
                 /\ team'.successfulMissions =
                        IF reply'.body = "false" THEN team.successfulMissions
                        ELSE team.successfulMissions + 1
            ELSE /\ team' = team
                 /\ reply'.status \in {400, 404}
                 /\ (reply'.status = 400) => team.status # "deployed"
      ]_vars

\* C22 witness: the team was assigned and has completed its mission without
\* success: it is available again, with one mission and no successful one.
C22_Witness ==
    /\ team # NoTeam
    /\ reply = teamReply("teams/complete", "false", 200)
    /\ team.status = "available"
    /\ team.currentAssignment = NoAssignment
    /\ team.totalMissions = 1
    /\ team.successfulMissions = 0
    /\ team.lastMissionDate = now

\* C23: the team never has more successful missions than missions.
C23_SuccessfulWithinTotal ==
    team # NoTeam => team.successfulMissions <= team.totalMissions

\* this step is a comparePassword call that ends as reply' says
calls == now' = now /\ <<reply, user>>' # <<reply, user>>

\* C24: the failed call that brings loginAttempts to 5 or more sets
\* lockUntil to two hours after the call; while lockUntil is in the future
\* every call, one with the right password too, ends with the locked error
\* and leaves loginAttempts, lockUntil and lastLogin as they are.
C24_Lockout ==
    [][calls =>
         /\ (user.lockUntil # Unset /\ user.lockUntil > now) =>
               /\ reply'.error = "Account is locked. Try again later."
               /\ user' = user
         /\ (reply'.error = "Invalid password" /\ user'.loginAttempts >= 5) =>
               user'.lockUntil = now + 2 * 60 * 60 * 1000
      ]_vars

\* C24 witness: five failed calls have locked the account, and a call with
\* the right password a second later has ended with the locked error.
C24_Witness ==
    /\ user # NoUser
    /\ user.loginAttempts = 5
    /\ user.lockUntil = 7200000
    /\ now = 1000
    /\ user.lastLogin = Unset
    /\ reply = loginReply("right", LockedError)

\* C25: a stored lockUntil comes with at least 5 login attempts, and right
\* after a successful call loginAttempts is 0, lockUntil is cleared and
\* lastLogin is the time of the call.
C25_ResetOnSuccess ==
    [][/\ user'.lockUntil # Unset => user'.loginAttempts >= 5
       /\ (calls /\ reply'.error = "") =>
             /\ user'.loginAttempts = 0
             /\ user'.lockUntil = Unset
             /\ user'.lastLogin = now
      ]_vars

\* C25 witness: the account was locked by five failed calls at time 0, and a
\* call with the right password when the two hours were over has reset it.
C25_Witness ==
    /\ user # NoUser
    /\ now = 7200000
    /\ reply = loginReply("right", "")
    /\ user.loginAttempts = 0
    /\ user.lockUntil = Unset
    /\ user.lastLogin = 7200000

\* C26: with requests taken one at a time, no team is twice in a report's
\* assignedTeams, a repeated assignment being answered 400 and changing
\* nothing; a successful assignment makes a reported report in_progress and
\* leaves every other status as it is.
C26_ReportTeamsAssignedOnce ==
    [][/\ assignedOnce(report'.assignedTeams)
       /\ (reply'.route = "reports/assign-team" /\ <<reply, report>>' # <<reply, report>>)
            => IF reply'.status = 200
               THEN report'.status = IF report.status = "reported"
                                     THEN "in_progress" ELSE report.status
               ELSE report' = report
      ]_vars

\* C27: when an await of a simulateSensorData call has rejected, the call
\* is over: until the next call starts no sensor gets a reading and no
\* alert is stored, the later sensors of the list among them, and what was
\* stored before the failure is still there.
C27_FailureStopsTick ==
    (failure # NoFailure /\ failure.call = ticksStarted) =>
        /\ \A t \in Ticks : tick[t].pc = "idle"
        /\ \A id \in SensorIdSet :
              /\ Len(arrived[id]) = failure.readings[id]
              /\ Len(sensors[id].readings) = failure.readings[id]
        /\ Len(alerts) = failure.alerts

\* C27 witness: the first call saved the reading of its first sensor, then
\* the save of the alert failed; the second sensor has no reading, and no
\* alert is stored.
C27_Witness ==
    /\ failure # NoFailure
    /\ failure.call = 1
    /\ ticksStarted = 1
    /\ failure.pc = "save"
    /\ failure.idx = 1
    /\ Len(failure.list) = 2
    /\ Len(sensors[failure.list[1]].readings) = 1
    /\ sensors[failure.list[2]].readings = <<>>
    /\ alerts = <<>>

\* C28: POST /alerts stores the estimatedImpact of the request whenever the
\* request has one, 0 included, and the value of the (type, severity) table
\* only when the request has none.
C28_KeepsSuppliedImpact ==
    (reply.route = "alerts/create" /\ reply.status = 201) =>
        alerts[Len(alerts)].estimatedImpact =
            IF reply.body.supplied
            THEN reply.body.estimatedImpact
            ELSE calculateEstimatedImpact(reply.body.type,
                                          reply.body.severity)

\* the step in which call t is done with its sensor after a reading that
\* was not normal: findOne found an alert, or save() stored the new one
processed(t) ==
    \/ tick[t].pc = "findOne" /\ tick'[t] # tick[t] /\ tick'[t].pc # "save"
    \/ tick[t].pc = "save" /\ tick'[t] # tick[t]

\* after the step there is an unresolved alert of the sensor of call t, of
\* the mapped type and severity, created at since or later
coveredSince(t, since) ==
    \E i \in 1..Len(alerts') :
        /\ alerts'[i].sensorData.sensorId = sensors[current(t)].sensorId
        /\ alerts'[i].type = getAlertType(sensors[current(t)].type)
        /\ alerts'[i].severity = alertSeverity(tick[t].alertStatus)
        /\ alerts'[i].resolved = FALSE
        /\ alerts'[i].createdAt >= since

\* the reading call t classified is among the readings of its sensor
readingAppended(t) ==
    \E k \in 1..Len(sensors[current(t)].readings) :
        sensors[current(t)].readings[k].value = tick[t].newValue

\* C29 as stated: right after a call is done with a sensor whose reading it
\* classified warning or critical, there is an unresolved alert of that
\* sensor, mapped type and mapped severity created in the 5 minutes before
\* that moment, and the reading was appended before the decision.
C29_CoveredInLastWindow ==
    [][\A t \in Ticks :
          /\ tick[t].pc \in {"findOne", "save"} => readingAppended(t)
          /\ processed(t) => coveredSince(t, now' - DedupWindowMs)]_vars

\* C29 amended: the alert is created in the 5 minutes before the moment
\* the recent-alert query was built, or later; the reading was appended
\* before the decision.
C29_CoveredInQueryWindow ==
    [][\A t \in Ticks :
          /\ tick[t].pc \in {"findOne", "save"} => readingAppended(t)
          /\ processed(t) =>
                coveredSince(t, tick[t].queriedAt - DedupWindowMs)]_vars

\* C29 witness: a second call has built its query when the alert of the
\* first was exactly 5 minutes old, and findOne answers later: the alert is
\* in the query's window and older than 5 minutes.
C29_Witness ==
    \E t \in Ticks :
        /\ tick[t].pc = "findOne"
        /\ Len(alerts) = 1
        /\ alerts[1].resolved = FALSE
        /\ alerts[1].severity = alertSeverity(tick[t].alertStatus)
        /\ alerts[1].createdAt = tick[t].queriedAt - DedupWindowMs
        /\ now > tick[t].queriedAt
        /\ readingAppended(t)

====
